---- MODULE Spec2Model ----
(***************************************************************************)
(* Hartree-Slater GOS tables (hyperspy/misc/eels/hartree_slater_gos.py):   *)
(* the subshell convention map, the construction of a HartreeSlaterGOS     *)
(* object from a table file or from an exported dictionary, and            *)
(* integrateq, called by several callers on one shared object.             *)
(*                                                                         *)
(* Python's 0-based GOS_list[k] is toks[k + 1] here.  Exact fractions are  *)
(* pairs <<numerator, denominator>>.                                       *)
(***************************************************************************)
EXTENDS Integers, Sequences, FiniteSets, TLC

VARIABLES
    arg,     \* the constructor's argument: a string 'El_Sub' (split) or a dictionary
    env,     \* the GOS directory, its files and the element database
    obj,     \* the attributes of the HartreeSlaterGOS object
    pc,      \* where the constructor is: start, read_elements, ..., ready or raised
    err,     \* the exception the constructor raised
    fsLog,   \* the file-system operations performed, in order
    call,    \* each caller's running integrateq: its locals and its result
    fresh    \* the object as the constructor returned it

vars == <<arg, env, obj, pc, err, fsLog, call, fresh>>

(***************************************************************************)
(* Bounds of the model.                                                    *)
(***************************************************************************)
MaxRows == 4
MaxCols == 2

(***************************************************************************)
(* Exact fractions.                                                        *)
(***************************************************************************)
RatAdd(a, b) == <<a[1] * b[2] + b[1] * a[2], a[2] * b[2]>>
RatEq(a, b) == a[1] * b[2] = b[1] * a[2]

(***************************************************************************)
(* The convention map, lines 40-52, entry by entry.                        *)
(***************************************************************************)
conventions ==
    ("K" :> [table |-> "K1", factor |-> <<1, 1>>]) @@
    ("L1" :> [table |-> "L1", factor |-> <<1, 1>>]) @@
    ("L2,3" :> [table |-> "L3", factor |-> <<3, 2>>]) @@
    ("L2" :> [table |-> "L3", factor |-> <<1, 2>>]) @@
    ("L3" :> [table |-> "L3", factor |-> <<1, 1>>]) @@
    ("M1" :> [table |-> "M1", factor |-> <<1, 1>>]) @@
    ("M2,3" :> [table |-> "M3", factor |-> <<3, 2>>]) @@
    ("M2" :> [table |-> "M3", factor |-> <<1, 2>>]) @@
    ("M3" :> [table |-> "M3", factor |-> <<1, 1>>]) @@
    ("M4,5" :> [table |-> "M5", factor |-> <<5, 3>>]) @@
    ("M4" :> [table |-> "M5", factor |-> <<2, 3>>]) @@
    ("M5" :> [table |-> "M5", factor |-> <<1, 1>>]) @@
    ("N1" :> [table |-> "N1", factor |-> <<1, 1>>]) @@
    ("N2,3" :> [table |-> "N3", factor |-> <<3, 2>>]) @@
    ("N2" :> [table |-> "N3", factor |-> <<1, 2>>]) @@
    ("N3" :> [table |-> "N3", factor |-> <<1, 1>>]) @@
    ("N4,5" :> [table |-> "N5", factor |-> <<5, 3>>]) @@
    ("N4" :> [table |-> "N5", factor |-> <<2, 3>>]) @@
    ("N5" :> [table |-> "N5", factor |-> <<1, 1>>]) @@
    ("N6,7" :> [table |-> "N7", factor |-> <<7, 4>>]) @@
    ("N6" :> [table |-> "N7", factor |-> <<4, 7>>]) @@
    ("N7" :> [table |-> "N7", factor |-> <<1, 1>>]) @@
    ("O1" :> [table |-> "O1", factor |-> <<1, 1>>]) @@
    ("O2,3" :> [table |-> "O3", factor |-> <<3, 2>>]) @@
    ("O2" :> [table |-> "O3", factor |-> <<1, 2>>]) @@
    ("O3" :> [table |-> "O3", factor |-> <<1, 1>>]) @@
    ("O4,5" :> [table |-> "O5", factor |-> <<5, 3>>]) @@
    ("O4" :> [table |-> "O5", factor |-> <<2, 3>>]) @@
    ("O5" :> [table |-> "O5", factor |-> <<1, 1>>])

ConventionKeys == DOMAIN conventions

(***************************************************************************)
(* The families of the map that have a combined label and its two single   *)
(* labels: <<combined, first, second>>.                                    *)
(***************************************************************************)
Families ==
    { <<"L2,3", "L2", "L3">>, <<"M2,3", "M2", "M3">>, <<"M4,5", "M4", "M5">>,
      <<"N2,3", "N2", "N3">>, <<"N4,5", "N4", "N5">>, <<"N6,7", "N6", "N7">>,
      <<"O2,3", "O2", "O3">>, <<"O4,5", "O4", "O5">> }

(***************************************************************************)
(* Tokens of a table file.  A token is what f.read().split() yields: kind  *)
(* "int" is a literal both int() and float() accept ("4"), kind "float" a  *)
(* literal only float() accepts ("4.0"), kind "bad" one neither accepts.   *)
(***************************************************************************)
IntTok(v) == [kind |-> "int", val |-> v]
FloatTok(v) == [kind |-> "float", val |-> v]
BadTok == [kind |-> "bad", val |-> 0]

IsFloat(t) == t.kind \in {"int", "float"}
IsInt(t) == t.kind = "int"

(***************************************************************************)
(* Table files: nine header tokens, then the payload.  Payload token k     *)
(* carries the value 10 + k, so that the place of every value shows.       *)
(***************************************************************************)
Header(mTok, nTok) ==
    << IntTok(0), IntTok(0), FloatTok(1), FloatTok(1), IntTok(0), mTok,
       FloatTok(300), FloatTok(10), nTok >>

Payload(cnt) == [k \in 1..cnt |-> FloatTok(10 + k)]

DimToks(max) == { IntTok(v) : v \in (-2)..max } \cup { FloatTok(max), BadTok }

WellFormed == Header(IntTok(MaxCols), IntTok(MaxRows)) \o Payload(MaxRows * MaxCols)

FileShapes ==
    { Header(m, n) \o Payload(c) :
        m \in DimToks(MaxCols), n \in DimToks(MaxRows), c \in 0..(MaxRows * MaxCols + 1) }

Truncated == { SubSeq(WellFormed, 1, l) : l \in 0..8 }

Corrupted == { [WellFormed EXCEPT ![k] = BadTok] : k \in 1..Len(WellFormed) }

AllFiles == FileShapes \cup Truncated \cup Corrupted

(***************************************************************************)
(* Exceptions: the class raised and the place that raised it.              *)
(***************************************************************************)
NoError == [cls |-> "none", at |-> "none"]
Raise(cls, at) == [cls |-> cls, at |-> at]

(***************************************************************************)
(* The object's attributes: a function from attribute names to values,     *)
(* whose domain is the set of attributes that exist.                       *)
(***************************************************************************)
NoAttrs == [a \in {} |-> 0]
SetAttr(o, name, v) == (name :> v) @@ o
HasAttr(o, name) == name \in DOMAIN o

WhitelistKeys == {"gos_array", "rel_energy_axis", "qaxis", "element", "subshell"}

(***************************************************************************)
(* gos_array / R, line 172: the exact fraction v / R with R in             *)
(* thousandths of an eV.                                                   *)
(***************************************************************************)
R_milli == 13606
DivR(v) == <<v * 1000, R_milli>>

(***************************************************************************)
(* The axis parametrizations of the base class: fixed, strictly increasing *)
(* in the index, of length n (empty for n <= 0).                           *)
(***************************************************************************)
get_parametrized_energy_axis(k1, k2, n) ==
    [i \in 1..n |-> k1 * (i - 1) + k2 * (i - 1) * (i - 1)]

get_parametrized_qaxis(k1, k2, n) ==
    [i \in 1..n |-> k1 * i + k2 * (i - 1)]

AxisPlus(axis, s) == [i \in DOMAIN axis |-> axis[i] + s]

(***************************************************************************)
(* numpy's reshape(nrow, ncol) of a flat array of the given size, line     *)
(* 172: one dimension given as -1 is inferred from the size.               *)
(***************************************************************************)
ReshapeShape(size, nrow, ncol) ==
    IF nrow >= 0 /\ ncol >= 0
    THEN [ok |-> nrow * ncol = size, rows |-> nrow, cols |-> ncol]
    ELSE IF nrow = -1 /\ ncol > 0 /\ size % ncol = 0
    THEN [ok |-> TRUE, rows |-> size \div ncol, cols |-> ncol]
    ELSE IF ncol = -1 /\ nrow > 0 /\ size % nrow = 0
    THEN [ok |-> TRUE, rows |-> nrow, cols |-> size \div nrow]
    ELSE [ok |-> FALSE, rows |-> 0, cols |-> 0]

(***************************************************************************)
(* The header tokens readgosfile converts, in the order of lines 163-168,  *)
(* as Python indices, and the first one that raises.                       *)
(***************************************************************************)
HeaderIndices == {2, 3, 5, 6, 7, 8}
HeaderIntIndices == {5, 8}

HeaderTokenFaulty(toks, k) ==
    \/ k >= Len(toks)
    \/ IF k \in HeaderIntIndices THEN ~IsInt(toks[k + 1]) ELSE ~IsFloat(toks[k + 1])

HeaderFaults(toks) == { k \in HeaderIndices : HeaderTokenFaulty(toks, k) }

FirstHeaderFault(toks) ==
    CHOOSE k \in HeaderFaults(toks) : \A j \in HeaderFaults(toks) : k <= j

PayloadOf(toks) == SubSeq(toks, 10, Len(toks))

(***************************************************************************)
(* The outcome of lines 160-179 on the tokens of the opened file: the      *)
(* exception raised and the attributes set by then (line 169 sets the flat *)
(* gos_array before line 172 reshapes it).                                 *)
(***************************************************************************)
ParseTable(toks) ==
    IF HeaderFaults(toks) # {}
    THEN [err |-> Raise(IF FirstHeaderFault(toks) >= Len(toks)
                        THEN "IndexError" ELSE "ValueError", "header"),
          set |-> NoAttrs]
    ELSE IF \E k \in DOMAIN PayloadOf(toks) : ~IsFloat(PayloadOf(toks)[k])
    THEN [err |-> Raise("ValueError", "np.array"), set |-> NoAttrs]
    ELSE
      LET ncol == toks[6].val
          nrow == toks[9].val
          flat == PayloadOf(toks)
          shape == ReshapeShape(Len(flat), nrow, ncol)
          rel == get_parametrized_energy_axis(toks[7].val, toks[8].val, nrow)
      IN  IF ~shape.ok
          THEN [err |-> Raise("ValueError", "reshape"),
                set |-> ("gos_array" :> [k \in DOMAIN flat |-> flat[k].val])]
          ELSE [err |-> NoError,
                set |-> ("gos_array" :>
                           [r \in 1..shape.rows |->
                              [c \in 1..shape.cols |->
                                 DivR(flat[(r - 1) * shape.cols + c].val)]]) @@
                        ("rel_energy_axis" :> rel) @@
                        ("qaxis" :> get_parametrized_qaxis(toks[3].val, toks[4].val, ncol))]

(***************************************************************************)
(* as_dictionary, lines 120-125: the whitelisted attributes of an object.  *)
(***************************************************************************)
as_dictionary(o) == [k \in WhitelistKeys |-> o[k]]

(***************************************************************************)
(* load_from_dictionary of hyperspy.misc.export_dictionary: sets the       *)
(* whitelisted attributes from the dictionary.                             *)
(***************************************************************************)
load_from_dictionary(o, d) == [k \in WhitelistKeys |-> d[k]] @@ o

(***************************************************************************)
(* Inputs.  The environment: whether the GOS directory is a directory,     *)
(* which files '{element}.{table}' it holds (as pairs), the tokens of      *)
(* those files, whether the element database knows the edge, and the       *)
(* onset energy it gives (eV).                                             *)
(***************************************************************************)
Elements == {"Ti"}

TableFilesPresent == { <<"Ti", "K1">>, <<"Ti", "L3">>, <<"Ti", "N7">> }

Envs(files, onsets) ==
    { [dir |-> TRUE, present |-> TableFilesPresent, toks |-> f, known |-> k, onset |-> on] :
        f \in files, k \in BOOLEAN, on \in onsets }
    \cup
    { [dir |-> TRUE, present |-> {}, toks |-> <<>>, known |-> k, onset |-> on] :
        k \in BOOLEAN, on \in onsets }
    \cup
    { [dir |-> FALSE, present |-> {}, toks |-> <<>>, known |-> k, onset |-> on] :
        k \in BOOLEAN, on \in onsets }

StrArgs(labels) ==
    { [kind |-> "str", parts |-> <<e, s>>, d |-> NoAttrs] : e \in Elements, s \in labels }
    \cup { [kind |-> "str", parts |-> <<"Ti">>, d |-> NoAttrs] }

(***************************************************************************)
(* Dictionaries: the export of a table read from the well-formed file,     *)
(* under each label, and dictionaries that lack 'subshell' or everything.  *)
(***************************************************************************)
ExportedDict(e, s) ==
    as_dictionary(("element" :> e) @@ ("subshell" :> s) @@ ParseTable(WellFormed).set)

DictArgs(labels) ==
    { [kind |-> "dict", parts |-> <<>>, d |-> ExportedDict(e, s)] :
        e \in Elements, s \in labels }
    \cup { [kind |-> "dict", parts |-> <<>>, d |-> NoAttrs],
           [kind |-> "dict", parts |-> <<>>, d |-> ("element" :> "Ti")] }

(***************************************************************************)
(* __init__, lines 100-112, up to the call of read_elements.               *)
(***************************************************************************)
InitObject ==
    /\ pc = "start"
    /\ LET o == SetAttr(NoAttrs, "_whitelist", WhitelistKeys)
       IN  IF arg.kind = "dict"
           THEN IF ~HasAttr(arg.d, "element")
                THEN /\ obj' = o
                     /\ err' = Raise("KeyError", "dict")
                     /\ pc' = "raised"
                ELSE IF ~HasAttr(arg.d, "subshell")
                THEN /\ obj' = SetAttr(o, "element", arg.d["element"])
                     /\ err' = Raise("KeyError", "dict")
                     /\ pc' = "raised"
                ELSE /\ obj' = SetAttr(SetAttr(o, "element", arg.d["element"]),
                                       "subshell", arg.d["subshell"])
                     /\ err' = err
                     /\ pc' = "read_elements"
           ELSE IF Len(arg.parts) # 2
                THEN /\ obj' = o
                     /\ err' = Raise("ValueError", "split")
                     /\ pc' = "raised"
                ELSE /\ obj' = SetAttr(SetAttr(o, "element", arg.parts[1]),
                                       "subshell", arg.parts[2])
                     /\ err' = err
                     /\ pc' = "read_elements"
    /\ UNCHANGED <<arg, env, fsLog, call, fresh>>

(***************************************************************************)
(* read_elements, lines 127-129: the base class's read_elements, then the  *)
(* convention lookup of line 129, a KeyError for a label outside the map.  *)
(***************************************************************************)
ConventionFactor(o) == conventions[o["subshell"]].factor

(***************************************************************************)
(* super().read_elements() of line 128, the base class's lookup in the     *)
(* element database: it rejects an edge the database does not know, and    *)
(* otherwise sets onset_energy.                                            *)
(***************************************************************************)
base_read_elements_rejects == ~env.known
base_read_elements(o) == SetAttr(o, "onset_energy", env.onset)

read_elements_Default ==
    /\ pc = "read_elements"
    /\ IF base_read_elements_rejects
       THEN /\ obj' = obj
            /\ err' = Raise("LookupError", "element_database")
            /\ pc' = "raised"
       ELSE LET o == base_read_elements(obj)
            IN  /\ obj' = SetAttr(o, "subshell_factor",
                                  IF obj["subshell"] \in ConventionKeys
                                  THEN ConventionFactor(o) ELSE <<1, 1>>)
                /\ err' = err
                /\ pc' = IF arg.kind = "dict" THEN "load_dictionary" ELSE "readgosfile"
    /\ UNCHANGED <<arg, env, fsLog, call, fresh>>

read_elements ==
    /\ pc = "read_elements"
    /\ IF base_read_elements_rejects
       THEN /\ obj' = obj
            /\ err' = Raise("LookupError", "element_database")
            /\ pc' = "raised"
       ELSE LET o == base_read_elements(obj)
            IN  IF obj["subshell"] \notin ConventionKeys
                THEN /\ obj' = o
                     /\ err' = Raise("KeyError", "conventions")
                     /\ pc' = "raised"
                ELSE /\ obj' = SetAttr(o, "subshell_factor", ConventionFactor(o))
                     /\ err' = err
                     /\ pc' = IF arg.kind = "dict" THEN "load_dictionary" ELSE "readgosfile"
    /\ UNCHANGED <<arg, env, fsLog, call, fresh>>

(***************************************************************************)
(* _load_dictionary, lines 116-118.                                        *)
(***************************************************************************)
(***************************************************************************)
(* energy_axis = rel_energy_axis + onset_energy, lines 118 and 180.        *)
(***************************************************************************)
EnergyAxisOf_Unshifted(o) == o["rel_energy_axis"]
EnergyAxisOf(o) == AxisPlus(o["rel_energy_axis"], o["onset_energy"])

load_dictionary ==
    /\ pc = "load_dictionary"
    /\ LET o == load_from_dictionary(obj, arg.d)
       IN  obj' = SetAttr(o, "energy_axis", EnergyAxisOf(o))
    /\ fresh' = obj'
    /\ pc' = "ready"
    /\ UNCHANGED <<arg, env, err, fsLog, call>>

(***************************************************************************)
(* readgosfile, lines 131-180: the table lookup of line 140, the           *)
(* directory check, the open, the parse.                                   *)
(***************************************************************************)
TableOf(subshell) == conventions[subshell].table

readgosfile_OpenFirst ==
    /\ pc = "readgosfile"
    /\ LET gos_file == <<obj["element"], TableOf(obj["subshell"])>>
       IN  IF obj["subshell"] \notin ConventionKeys
           THEN /\ fsLog' = fsLog
                /\ err' = Raise("KeyError", "conventions")
                /\ obj' = obj
                /\ pc' = "raised"
           ELSE IF gos_file \notin env.present
           THEN /\ fsLog' = Append(fsLog, "open")
                /\ err' = Raise("FileNotFoundError", "open")
                /\ obj' = obj
                /\ pc' = "raised"
           ELSE LET res == ParseTable(env.toks)
                    o == res.set @@ obj
                IN  /\ fsLog' = fsLog \o <<"open", "read", "is_dir">>
                    /\ err' = res.err
                    /\ obj' = IF res.err = NoError
                              THEN SetAttr(o, "energy_axis", EnergyAxisOf(o))
                              ELSE o
                    /\ pc' = IF res.err = NoError THEN "ready" ELSE "raised"
    /\ fresh' = IF pc' = "ready" THEN obj' ELSE fresh
    /\ UNCHANGED <<arg, env, call>>

readgosfile ==
    /\ pc = "readgosfile"
    /\ LET gos_file == <<obj["element"], TableOf(obj["subshell"])>>
       IN  IF obj["subshell"] \notin ConventionKeys
           THEN /\ fsLog' = fsLog
                /\ err' = Raise("KeyError", "conventions")
                /\ obj' = obj
                /\ pc' = "raised"
           ELSE IF ~env.dir
           THEN /\ fsLog' = Append(fsLog, "is_dir")
                /\ err' = Raise("FileNotFoundError", "is_dir")
                /\ obj' = obj
                /\ pc' = "raised"
           ELSE IF gos_file \notin env.present
           THEN /\ fsLog' = fsLog \o <<"is_dir", "open">>
                /\ err' = Raise("FileNotFoundError", "open")
                /\ obj' = obj
                /\ pc' = "raised"
           ELSE LET res == ParseTable(env.toks)
                    o == res.set @@ obj
                IN  /\ fsLog' = fsLog \o <<"is_dir", "open", "read">>
                    /\ err' = res.err
                    /\ obj' = IF res.err = NoError
                              THEN SetAttr(o, "energy_axis", EnergyAxisOf(o))
                              ELSE o
                    /\ pc' = IF res.err = NoError THEN "ready" ELSE "raised"
    /\ fresh' = IF pc' = "ready" THEN obj' ELSE fresh
    /\ UNCHANGED <<arg, env, call>>

(***************************************************************************)
(* integrateq, lines 182-210.  Floating-point values are kept as terms:    *)
(* kind "zero" (np.zeros), "nan", or "num", a finite number named by what  *)
(* it was computed from, with the scalings applied to it.                  *)
(***************************************************************************)
Zero == [kind |-> "zero", gos |-> <<>>, qaxis |-> <<>>, E |-> 0, angle |-> 0, E0 |-> 0,
         scaled |-> <<>>]
NaN == [kind |-> "nan", gos |-> <<>>, qaxis |-> <<>>, E |-> 0, angle |-> 0, E0 |-> 0,
        scaled |-> <<>>]
Num(gos, qaxis, E, angle, E0) ==
    [kind |-> "num", gos |-> gos, qaxis |-> qaxis, E |-> E, angle |-> angle, E0 |-> E0,
     scaled |-> <<>>]

(***************************************************************************)
(* The sign of pp2, lines 188-196.  With m = 511060 eV, gamma = 1 +        *)
(* 1000 E0 / m, T = m (1 - 1/gamma^2) / 2 and p02 = T gamma^2 / R, line    *)
(* 196 gives pp2 = m ((gamma - E/m)^2 - 1) / (2 R): negative exactly when  *)
(* 1000 E0 < E < 1000 E0 + 2 m (E in eV, E0 in keV).                       *)
(***************************************************************************)
pp2_negative(E, E0) == 1000 * E0 < E /\ E < 1000 * E0 + 1022120

(***************************************************************************)
(* np.sqrt(p02 * pp2) of line 197: nan for a negative argument, no raise.  *)
(***************************************************************************)
np_sqrt_Clamped(negative) == "num"
np_sqrt(negative) == IF negative THEN "nan" ELSE "num"

(***************************************************************************)
(* qa0sqmax of lines 197-198 and math.sqrt(qa0sqmax) of line 200: a nan    *)
(* summand makes the sum nan, and math.sqrt(nan) is nan without a raise.   *)
(* (math.sqrt raises for a negative number; qa0sqmin is not negative for   *)
(* the energies E >= 0 of this model, so a number here is not negative.)   *)
(***************************************************************************)
qa0sqmax(E, E0) == IF np_sqrt(pp2_negative(E, E0)) = "nan" THEN "nan" ELSE "num"
math_sqrt(x) == IF x = "nan" THEN "nan" ELSE "num"

(***************************************************************************)
(* get_qaxis_and_gos of the base class and integrate.simps: the samples    *)
(* of the row between qmin and qmax, and their integral; a nan bound       *)
(* gives nan.                                                              *)
(***************************************************************************)
get_qaxis_and_gos(gosrow, qaxis, E, angle, E0, qmax) ==
    IF qmax = "nan" THEN NaN ELSE Num(gosrow, qaxis, E, angle, E0)

simps(samples) == IF samples.kind = "nan" THEN NaN ELSE samples

(***************************************************************************)
(* The body of the row loop, lines 191-204, for row i: the value stored    *)
(* in qint[i].                                                             *)
(***************************************************************************)
RowEnergy(o, i, energy_shift) == o["energy_axis"][i] + energy_shift

RowIntegral(o, i, energy_shift, angle, E0) ==
    LET E == RowEnergy(o, i, energy_shift)
        qmax == math_sqrt(qa0sqmax(E, E0))
    IN  simps(get_qaxis_and_gos(o["gos_array"][i], o["qaxis"], E, angle, E0, qmax))

RowBody_NeedsPrevious(o, qint, i, energy_shift, angle, E0) ==
    [qint EXCEPT ![i] = IF i > 1 /\ qint[i - 1] = Zero
                        THEN Zero
                        ELSE RowIntegral(o, i, energy_shift, angle, E0)]
RowBody(o, qint, i, energy_shift, angle, E0) ==
    [qint EXCEPT ![i] = RowIntegral(o, i, energy_shift, angle, E0)]

(***************************************************************************)
(* Lines 205-208: qint *= 4 pi a0^2 R^2 / E / T * subshell_factor * 1e28,  *)
(* elementwise over E = energy_axis + energy_shift.                        *)
(***************************************************************************)
ShiftedAxis(o, energy_shift) == AxisPlus(o["energy_axis"], energy_shift)

ScaleOne(v, E, E0, factor) ==
    IF v.kind = "num" THEN [v EXCEPT !.scaled = Append(@, <<E, E0, factor>>)] ELSE v

ScaleAll(o, qint, energy_shift, E0) ==
    [k \in DOMAIN qint |->
        ScaleOne(qint[k], ShiftedAxis(o, energy_shift)[k], E0, o["subshell_factor"])]

(***************************************************************************)
(* interpolate.interp1d(E, qint, kind=3), line 210: a cubic interpolant    *)
(* needs at least four points.                                             *)
(***************************************************************************)
NoResult == [x |-> <<>>, y |-> <<>>]
interp1d_raises(E) == Len(E) < 4
interp1d(E, qint) == [x |-> E, y |-> qint]

(***************************************************************************)
(* Callers of integrateq on the shared object, and their arguments.        *)
(***************************************************************************)
Callers == {"c1", "c2"}
Angles == {10, 20}
BeamEnergies == {1, 2}
OnsetOverrides(o) == {o["onset_energy"], o["onset_energy"] + 100}

(***************************************************************************)
(* A caller's record: its position in integrateq, the arguments, the       *)
(* locals energy_shift, qint and i (the next row, from 1), the rows        *)
(* written so far in order, and what the call returned or raised.          *)
(***************************************************************************)
Idle == [pc |-> "idle", onset_energy |-> 0, angle |-> 0, E0 |-> 0, energy_shift |-> 0,
         qint |-> <<>>, i |-> 0, order |-> <<>>, result |-> NoResult, err |-> NoError]

(***************************************************************************)
(* Lines 183-189: the entry of integrateq.                                 *)
(***************************************************************************)
EnergyShift_Reversed(onset_energy, o) == o["onset_energy"] - onset_energy
EnergyShift(onset_energy, o) == onset_energy - o["onset_energy"]

(***************************************************************************)
(* Line 184: self.energy_shift = energy_shift.                             *)
(***************************************************************************)
EnterWrites_Onset(o, energy_shift) ==
    SetAttr(SetAttr(o, "energy_shift", energy_shift),
            "onset_energy", o["onset_energy"] + energy_shift)
EnterWrites(o, energy_shift) == SetAttr(o, "energy_shift", energy_shift)

integrateq_enter(c) ==
    /\ pc = "ready"
    /\ call[c].pc = "idle"
    /\ \E onset_energy \in OnsetOverrides(obj), angle \in Angles, E0 \in BeamEnergies :
         LET energy_shift == EnergyShift(onset_energy, obj)
         IN  /\ obj' = EnterWrites(obj, energy_shift)
             /\ call' = [call EXCEPT ![c] =
                   [pc |-> "loop", onset_energy |-> onset_energy, angle |-> angle,
                    E0 |-> E0, energy_shift |-> energy_shift,
                    qint |-> [k \in DOMAIN obj["energy_axis"] |-> Zero],
                    i |-> 1,
                    order |-> <<>>,
                    result |-> NoResult, err |-> NoError]]
    /\ UNCHANGED <<arg, env, pc, err, fsLog, fresh>>

(***************************************************************************)
(* One iteration of the loop of lines 190-204, for row k.  The shift read  *)
(* at line 191 is the local energy_shift of the call.                      *)
(***************************************************************************)
LoopShift_Shared(c) == obj["energy_shift"]
LoopShift(c) == call[c].energy_shift

RowOf(c, k) ==
    IF k \notin DOMAIN obj["energy_axis"]
    THEN call' = [call EXCEPT ![c].pc = "raised",
                              ![c].err = Raise("IndexError", "energy_axis")]
    ELSE call' = [call EXCEPT
                    ![c].qint = RowBody(obj, @, k, LoopShift(c),
                                        call[c].angle, call[c].E0),
                    ![c].order = Append(@, k),
                    ![c].i = call[c].i + 1]

integrateq_row(c) ==
    /\ call[c].pc = "loop"
    /\ call[c].i <= Len(obj["gos_array"])
    /\ RowOf(c, call[c].i)
    /\ UNCHANGED <<arg, env, obj, pc, err, fsLog, fresh>>

(***************************************************************************)
(* Lines 205-210: the scaling, self.qint and the interpolant returned.     *)
(***************************************************************************)
integrateq_return(c) ==
    /\ call[c].pc = "loop"
    /\ call[c].i > Len(obj["gos_array"])
    /\ LET E == ShiftedAxis(obj, call[c].energy_shift)
           qint == ScaleAll(obj, call[c].qint, call[c].energy_shift, call[c].E0)
       IN  /\ obj' = SetAttr(obj, "qint", qint)
           /\ IF interp1d_raises(E)
              THEN call' = [call EXCEPT ![c].pc = "raised", ![c].qint = qint,
                                        ![c].err = Raise("ValueError", "interp1d")]
              ELSE call' = [call EXCEPT ![c].pc = "done", ![c].qint = qint,
                                        ![c].result = interp1d(E, qint)]
    /\ UNCHANGED <<arg, env, pc, err, fsLog, fresh>>

(***************************************************************************)
(* The caller takes the result (or the exception) and may call again.      *)
(***************************************************************************)
caller_continues(c) ==
    /\ call[c].pc \in {"done", "raised"}
    /\ call' = [call EXCEPT ![c] = Idle]
    /\ UNCHANGED <<arg, env, obj, pc, err, fsLog, fresh>>

(***************************************************************************)
(* integrateq run from entry to return with no other call in between.      *)
(***************************************************************************)
RECURSIVE LoopRows(_, _, _, _, _, _)
LoopRows(o, qint, i, energy_shift, angle, E0) ==
    IF i > Len(o["gos_array"])
    THEN qint
    ELSE LoopRows(o, RowBody(o, qint, i, energy_shift, angle, E0), i + 1,
                  energy_shift, angle, E0)

IntegrateAlone(o, onset_energy, angle, E0) ==
    LET energy_shift == EnergyShift(onset_energy, o)
        E == ShiftedAxis(o, energy_shift)
        zeros == [k \in DOMAIN o["energy_axis"] |-> Zero]
    IN  IF Len(o["gos_array"]) > Len(o["energy_axis"])
        THEN [err |-> Raise("IndexError", "energy_axis"), result |-> NoResult]
        ELSE IF interp1d_raises(E)
        THEN [err |-> Raise("ValueError", "interp1d"), result |-> NoResult]
        ELSE [err |-> NoError,
              result |-> interp1d(E, ScaleAll(o, LoopRows(o, zeros, 1, energy_shift,
                                                          angle, E0),
                                              energy_shift, E0))]

(***************************************************************************)
(* Specifications.  Init is the state before the constructor runs, for     *)
(* each argument and environment.                                          *)
(***************************************************************************)
InitWith(args, envs) ==
    /\ arg \in args
    /\ env \in envs
    /\ obj = NoAttrs
    /\ pc = "start"
    /\ err = NoError
    /\ fsLog = <<>>
    /\ call = [c \in Callers |-> Idle]
    /\ fresh = NoAttrs

Construct == InitObject \/ read_elements \/ load_dictionary \/ readgosfile

(***************************************************************************)
(* SpecLoad: the constructor alone, over every label of the map, labels    *)
(* outside it, and every file shape.                                       *)
(***************************************************************************)
LoadLabels == ConventionKeys \cup {"L4", "X1"}

InitLoad ==
    InitWith(StrArgs(LoadLabels) \cup DictArgs(LoadLabels), Envs(AllFiles, {400}))

SpecLoad == InitLoad /\ [][Construct]_vars

(***************************************************************************)
(* Spec: the constructor, then integrateq called by the callers, their     *)
(* row loops interleaved.                                                  *)
(***************************************************************************)
FewerRows ==
    Header(IntTok(MaxCols), IntTok(MaxRows - 1)) \o Payload((MaxRows - 1) * MaxCols)
InferredRows == Header(IntTok(MaxCols), IntTok(-1)) \o Payload(MaxRows * MaxCols)

SomeFiles == {WellFormed, FewerRows, InferredRows, [WellFormed EXCEPT ![12] = BadTok]}
SomeLabels == {"L2,3", "X1"}

Init == InitWith(StrArgs(SomeLabels) \cup DictArgs(SomeLabels), Envs(SomeFiles, {400}))

Next ==
    \/ Construct
    \/ \E c \in Callers :
         \/ integrateq_enter(c)
         \/ integrateq_row(c)
         \/ integrateq_return(c)
         \/ caller_continues(c)

Spec == Init /\ [][Next]_vars

(***************************************************************************)
(* SpecAnyOrder: one caller, the iterations of the row loop taken in any   *)
(* order (each row once), everything else as in Spec.                      *)
(***************************************************************************)
integrateq_row_any(c) ==
    /\ call[c].pc = "loop"
    /\ \E k \in 1..Len(obj["gos_array"]) :
         /\ \A j \in DOMAIN call[c].order : call[c].order[j] # k
         /\ RowOf(c, k)
    /\ UNCHANGED <<arg, env, obj, pc, err, fsLog, fresh>>

InitAnyOrder ==
    InitWith(StrArgs({"L3", "X1"}) \cup DictArgs({"L2,3"}),
             Envs({WellFormed, FewerRows, InferredRows}, {400}))

NextAnyOrder ==
    \/ Construct
    \/ integrateq_enter("c1")
    \/ integrateq_row_any("c1")
    \/ integrateq_return("c1")
    \/ caller_continues("c1")

SpecAnyOrder == InitAnyOrder /\ [][NextAnyOrder]_vars

(***************************************************************************)
(* Properties.                                                             *)
(***************************************************************************)
TableFields == {"gos_array", "rel_energy_axis", "qaxis", "energy_axis"}

SubshellRejected ==
    /\ HasAttr(obj, "subshell")
    /\ obj["subshell"] \notin ConventionKeys

(* C1: in every family of the convention map with a combined label 'Xa,b'  *)
(* and its single labels 'Xa' and 'Xb', the three labels resolve to the    *)
(* same table and factor('Xa,b') = factor('Xa') + factor('Xb') exactly;    *)
(* stated of the object whose read_elements has resolved a label of such   *)
(* a family.                                                               *)
C1_CombinedFactorIsSum ==
    \A f \in Families :
        (HasAttr(obj, "subshell_factor") /\ obj["subshell"] \in {f[1], f[2], f[3]}) =>
            /\ obj["subshell_factor"] = conventions[obj["subshell"]].factor
            /\ TableOf(f[1]) = TableOf(f[2])
            /\ TableOf(f[1]) = TableOf(f[3])
            /\ RatEq(conventions[f[1]].factor,
                     RatAdd(conventions[f[2]].factor, conventions[f[3]].factor))

(* C2, as claimed: an unknown subshell label fails with an error class     *)
(* dedicated to it: the class raised for it (KeyError, line 129) is raised *)
(* whenever the label is unknown and for no other failure.                 *)
C2_DedicatedError ==
    /\ (pc = "raised" /\ SubshellRejected /\ env.known) => err.cls = "KeyError"
    /\ (pc = "raised" /\ err.cls = "KeyError") => SubshellRejected

(* C2, amended: a label outside the convention keys makes the constructor  *)
(* fail, on the string path and on the dictionary path, with the KeyError  *)
(* of the convention lookup unless the element database has rejected the   *)
(* edge first; by then no file-system operation has been performed and     *)
(* the object has no table field and is never ready.                       *)
C2_UnknownSubshellFails ==
    SubshellRejected =>
        /\ pc \in {"read_elements", "raised"}
        /\ pc = "raised" =>
              /\ err \in {Raise("KeyError", "conventions"),
                          Raise("LookupError", "element_database")}
              /\ env.known => err = Raise("KeyError", "conventions")
        /\ fsLog = <<>>
        /\ DOMAIN obj \cap TableFields = {}
        /\ ~HasAttr(obj, "subshell_factor")

C2_Witness ==
    /\ arg.kind = "str"
    /\ env.dir /\ env.present # {}
    /\ SubshellRejected
    /\ pc = "raised"
    /\ err = Raise("KeyError", "conventions")

(* C3, as claimed: the error of a missing table file is of a class         *)
(* distinct from the class raised for a missing directory                  *)
(* (FileNotFoundError, line 152).                                          *)
C3_DistinctErrorClasses ==
    (pc = "raised" /\ err.at = "open") => err.cls # "FileNotFoundError"

(* C3, amended: a missing directory fails with FileNotFoundError raised by *)
(* the directory check, before any open; an existing directory without     *)
(* the file '{element}.{table}' fails with the same class,                 *)
(* FileNotFoundError, raised by the open; in both cases no table field is  *)
(* set.                                                                    *)
C3_MissingDirectoryOrFile ==
    fsLog # <<>> =>
        /\ ~env.dir =>
              /\ pc = "raised"
              /\ err = Raise("FileNotFoundError", "is_dir")
              /\ fsLog = <<"is_dir">>
              /\ DOMAIN obj \cap TableFields = {}
        /\ (env.dir /\ <<obj["element"], TableOf(obj["subshell"])>> \notin env.present) =>
              /\ pc = "raised"
              /\ err = Raise("FileNotFoundError", "open")
              /\ fsLog = <<"is_dir", "open">>
              /\ DOMAIN obj \cap TableFields = {}
        /\ err.at = "open" => env.dir

C3_Witness ==
    /\ env.dir
    /\ env.present # {}
    /\ pc = "raised"
    /\ err = Raise("FileNotFoundError", "open")
    /\ fsLog = <<"is_dir", "open">>

(* C4: with M = int(token[5]) and N = int(token[8]), the load fails when   *)
(* a needed token does not parse or the token count is not 9 + N*M, and    *)
(* succeeds, with the N x M matrix filled row by row from tokens[9:],      *)
(* exactly when the count is 9 + N*M and all tokens parse (success is      *)
(* required for counts N, M >= 0 only).                                    *)
C4_LoadsExactlyWhenCountMatches ==
    fsLog = <<"is_dir", "open", "read">> =>
        LET toks == env.toks
            parses == /\ HeaderFaults(toks) = {}
                      /\ \A k \in 10..Len(toks) : IsFloat(toks[k])
        IN  /\ ~parses => pc = "raised"
            /\ parses =>
                  LET M == toks[6].val
                      N == toks[9].val
                  IN  /\ Len(toks) # 9 + N * M => pc = "raised"
                      /\ (N >= 0 /\ M >= 0 /\ Len(toks) = 9 + N * M) =>
                            /\ pc = "ready"
                            /\ obj["gos_array"] =
                                  [r \in 1..N |->
                                     [c \in 1..M |-> DivR(toks[9 + (r - 1) * M + c].val)]]

(* C5, as claimed: once the table is constructed, no step of integrateq    *)
(* changes, adds or rewrites any attribute of the object.                  *)
C5_ObjectUnchanged == [][pc = "ready" => obj' = obj]_vars

(* C5, amended: integrateq leaves every attribute the constructor set      *)
(* unchanged (element, subshell, onset_energy, subshell_factor, the axes,  *)
(* gos_array), and the only attributes it adds or rewrites are             *)
(* energy_shift and qint.                                                  *)
C5_ConstructedFieldsUnchanged ==
    [][pc = "ready" =>
          /\ DOMAIN obj \subseteq DOMAIN obj'
          /\ DOMAIN obj' \subseteq DOMAIN obj \cup {"energy_shift", "qint"}
          /\ \A a \in DOMAIN obj \ {"energy_shift", "qint"} : obj'[a] = obj[a]]_vars

C5_Witness ==
    /\ pc = "ready"
    /\ HasAttr(obj, "energy_shift")
    /\ HasAttr(obj, "qint")
    /\ \E c \in Callers : call[c].pc = "done"
    /\ \A a \in DOMAIN fresh : obj[a] = fresh[a]

(* C6: whatever the interleaving of the callers' integrateq calls on the   *)
(* shared object, each call returns (or raises) what it would alone on     *)
(* the freshly constructed object.                                         *)
C6_ResultAsIfAlone ==
    \A c \in Callers :
        LET alone == IntegrateAlone(fresh, call[c].onset_energy, call[c].angle, call[c].E0)
        IN  /\ call[c].pc = "done" =>
                  /\ alone.err = NoError
                  /\ call[c].result = alone.result
            /\ call[c].pc = "raised" => call[c].err = alone.err

C6_Witness ==
    /\ call["c1"].pc = "done"
    /\ call["c2"].pc = "loop"
    /\ call["c2"].i > 2
    /\ call["c1"].energy_shift # call["c2"].energy_shift
    /\ call["c1"].E0 # call["c2"].E0
    /\ obj["energy_shift"] = call["c2"].energy_shift
    /\ obj["qint"] = call["c1"].qint

(* C7: after a successful construction, from a file or from a dictionary,  *)
(* and any integrateq calls, energy_axis is rel_energy_axis plus           *)
(* onset_energy, element by element, with onset_energy the value the       *)
(* element database gave.                                                  *)
C7_EnergyAxisIsRelPlusOnset ==
    pc = "ready" =>
        /\ obj["onset_energy"] = env.onset
        /\ DOMAIN obj["energy_axis"] = DOMAIN obj["rel_energy_axis"]
        /\ \A i \in DOMAIN obj["energy_axis"] :
              obj["energy_axis"][i] = obj["rel_energy_axis"][i] + obj["onset_energy"]

C7_Witness ==
    /\ pc = "ready"
    /\ arg.kind = "dict"
    /\ Len(obj["energy_axis"]) = MaxRows
    /\ obj["energy_axis"][MaxRows] > obj["onset_energy"]
    /\ HasAttr(obj, "qint")
    /\ \E c \in Callers : call[c].pc = "loop"

(* C8: energy_shift is the requested onset energy minus the table's; the   *)
(* interpolant is built over energy_axis + energy_shift; with the          *)
(* requested onset equal to the table's the shift is 0 and that axis is    *)
(* energy_axis itself; and the energy used for row i is element i of the   *)
(* shifted axis.                                                           *)
C8_ShiftAndShiftedAxis ==
    \A c \in Callers :
        call[c].pc \in {"loop", "done"} =>
            /\ call[c].energy_shift = call[c].onset_energy - obj["onset_energy"]
            /\ call[c].onset_energy = obj["onset_energy"] => call[c].energy_shift = 0
            /\ \A k \in DOMAIN call[c].qint :
                  call[c].qint[k].kind = "num" =>
                      call[c].qint[k].E = obj["energy_axis"][k] + call[c].energy_shift
            /\ call[c].pc = "done" =>
                  /\ DOMAIN call[c].result.x = DOMAIN obj["energy_axis"]
                  /\ \A k \in DOMAIN call[c].result.x :
                        call[c].result.x[k] = obj["energy_axis"][k] + call[c].energy_shift
                  /\ call[c].onset_energy = obj["onset_energy"] =>
                        call[c].result.x = obj["energy_axis"]

C8_Witness ==
    \E c \in Callers :
        /\ call[c].pc = "done"
        /\ call[c].onset_energy = obj["onset_energy"]
        /\ call[c].result.x = obj["energy_axis"]
        /\ \A k \in DOMAIN call[c].qint : call[c].qint[k].kind = "num"
        /\ \E d \in Callers : call[d].pc = "done" /\ call[d].energy_shift # 0

(* C9: a row whose kinematics give pp2 < 0 gets NaN in qint (and only      *)
(* such a row does); no step raises for it, and the loop goes on to the    *)
(* remaining rows, so that a call that returns has written every row.      *)
C9_ForbiddenRowGivesNaN ==
    \A c \in Callers :
        /\ \A j \in DOMAIN call[c].order :
              LET k == call[c].order[j]
              IN  pp2_negative(obj["energy_axis"][k] + call[c].energy_shift, call[c].E0)
                      <=> call[c].qint[k] = NaN
        /\ call[c].pc = "raised" => call[c].err.at \in {"energy_axis", "interp1d"}
        /\ call[c].pc = "done" =>
              /\ Len(call[c].order) = Len(obj["gos_array"])
              /\ call[c].result.y = call[c].qint

C9_Witness ==
    \E c \in Callers :
        /\ call[c].pc = "done"
        /\ call[c].qint[1].kind = "num"
        /\ call[c].qint[MaxRows - 1] = NaN
        /\ call[c].qint[MaxRows] = NaN
        /\ call[c].result.y[MaxRows] = NaN

(* C10: with the rows of the loop taken in any order, each index of qint   *)
(* is written exactly once, with a value that depends on row i of          *)
(* gos_array, the q axis, energy_axis[i] and the call's scalars alone; the *)
(* final qint is that of the sequential loop, and the scaling is applied   *)
(* once to every element, after the loop.                                  *)
C10_RowsIndependent ==
    \A c \in Callers :
        LET written(k) == Cardinality({j \in DOMAIN call[c].order : call[c].order[j] = k})
        IN  /\ call[c].pc = "loop" =>
                  \A k \in DOMAIN call[c].qint :
                      /\ written(k) <= 1
                      /\ written(k) = 0 => call[c].qint[k] = Zero
                      /\ written(k) = 1 =>
                            /\ call[c].qint[k] =
                                  RowIntegral(obj, k, call[c].energy_shift,
                                              call[c].angle, call[c].E0)
                            /\ call[c].qint[k].kind = "num" =>
                                  /\ call[c].qint[k].gos = obj["gos_array"][k]
                                  /\ call[c].qint[k].qaxis = obj["qaxis"]
                                  /\ call[c].qint[k].scaled = <<>>
            /\ call[c].pc = "done" =>
                  /\ \A k \in DOMAIN call[c].qint : written(k) = 1
                  /\ call[c].qint =
                        IntegrateAlone(fresh, call[c].onset_energy, call[c].angle,
                                       call[c].E0).result.y
                  /\ \A k \in DOMAIN call[c].qint :
                        call[c].qint[k].kind = "num" =>
                            call[c].qint[k].scaled =
                               << <<obj["energy_axis"][k] + call[c].energy_shift,
                                    call[c].E0, obj["subshell_factor"]>> >>

C10_Witness ==
    /\ call["c1"].pc = "done"
    /\ call["c1"].order[1] = MaxRows
    /\ call["c1"].order[MaxRows] = 2
    /\ call["c1"].qint[1].kind = "num"
    /\ call["c1"].qint[MaxRows] = NaN

====
